---- MODULE Spec2Model ----
(***************************************************************************)
(* Model of socksies.py: a CLI that manages ssh SOCKS tunnels described in *)
(* a YAML file.  Every invocation of the CLI is one atomic step (the       *)
(* program is single threaded and every child process is waited for).      *)
(* Strings the program formats and matches are sequences of one-character  *)
(* strings, so that formatting, '~' expansion, str() and the substring     *)
(* match of pgrep/pkill -f are computed and not assumed.                   *)
(***************************************************************************)
EXTENDS Integers, Sequences, FiniteSets, TLC

VARIABLES config_state, proxy_config, procs, run

vars == <<config_state, proxy_config, procs, run>>

(* ---------------------------- bounds ----------------------------------- *)

\* largest number of entries of the configuration file
MaxProxies == 2

\* largest number of processes in the process table
MaxProcs == 2

(* ---------------------------- values ----------------------------------- *)

\* YAML scalars of the port field: an integer or a string
IntVal(n) == [t |-> "int", v |-> n]

StrVal(s) == [t |-> "str", v |-> s]

\* the two-character default of a missing host or port
SENTINEL == <<"-", "-">>

\* the home directory that os.path.expanduser substitutes for '~'
HOME == <<"/", "r">>

\* top-level keys a configuration file may use
NameSeq == <<"proxy1", "proxy2", "proxy3">>

Names == {NameSeq[i] : i \in 1..Len(NameSeq)}

\* the entry bodies the tunnel commands are run on: two complete ones (one
\* with '~', the other with a host that the first host is a prefix of), one
\* without identity_file and one without port
TunnelData ==
    { [host |-> <<"h">>, port |-> IntVal(7), identity_file |-> <<"~", "/", "k">>],
      [host |-> <<"h", "2">>, port |-> IntVal(7), identity_file |-> <<"/", "r", "/", "k">>],
      [host |-> <<"h">>, port |-> IntVal(7)],
      [host |-> <<"h">>, identity_file |-> <<"/", "r", "/", "k">>] }

\* the entry bodies a configuration file may hold: those, and ones with
\* another port, without host, and with nothing but a port of 0
ProxyData ==
    TunnelData \cup
    { [host |-> <<"h">>, port |-> IntVal(71), identity_file |-> <<"/", "r", "/", "k", "2">>],
      [port |-> IntVal(7), identity_file |-> <<"/", "r", "/", "k">>],
      [port |-> IntVal(0)] }

\* names a command may be given on the command line
ArgNames == Names \cup {"all", "nonexistent"}

(* ------------------------ string functions ----------------------------- *)

Digit(d) == <<"0", "1", "2", "3", "4", "5", "6", "7", "8", "9">>[d + 1]

RECURSIVE Digits(_)
Digits(n) == IF n < 10 THEN <<Digit(n)>> ELSE Digits(n \div 10) \o <<Digit(n % 10)>>

\* str(x) and the {x} of an f-string, for a port value
PyStr(x) == IF x.t = "int" THEN Digits(x.v) ELSE x.v

\* Python truthiness of a port value (0 and "" are false)
PortTruthy(x) == IF x.t = "int" THEN x.v # 0 ELSE x.v # <<>>

\* Python truthiness of a string
StrTruthy(s) == s # <<>>

\* os.path.expanduser for paths with no user name after '~'
expanduser(path) ==
    IF Len(path) >= 1 /\ path[1] = "~" /\ (Len(path) = 1 \/ path[2] = "/")
    THEN HOME \o SubSeq(path, 2, Len(path))
    ELSE path

\* " ".join(args)
RECURSIVE Join(_)
Join(args) ==
    IF Len(args) = 0 THEN <<>>
    ELSE IF Len(args) = 1 THEN args[1]
    ELSE args[1] \o <<" ">> \o Join(Tail(args))

\* pattern occurs in cmdline (the match of pgrep -f / pkill -f for patterns
\* without regular-expression metacharacters)
Contains(cmdline, pattern) ==
    \E i \in 0..(Len(cmdline) - Len(pattern)) :
        SubSeq(cmdline, i + 1, i + Len(pattern)) = pattern

(* ------------------------ configuration -------------------------------- *)

\* dict.get(key, default)
Get(data, key, default) == IF key \in DOMAIN data THEN data[key] ELSE default

\* parse_proxy_config with the sentinel as the default of identity_file too
parse_proxy_config_sentinel ==
    [i \in 1..Len(proxy_config) |->
        [name |-> proxy_config[i].name,
         host |-> Get(proxy_config[i].data, "host", SENTINEL),
         port |-> Get(proxy_config[i].data, "port", StrVal(SENTINEL)),
         identity_file |-> Get(proxy_config[i].data, "identity_file", SENTINEL)]]

parse_proxy_config ==
    [i \in 1..Len(proxy_config) |->
        [name |-> proxy_config[i].name,
         host |-> Get(proxy_config[i].data, "host", SENTINEL),
         port |-> Get(proxy_config[i].data, "port", StrVal(SENTINEL)),
         identity_file |-> Get(proxy_config[i].data, "identity_file", <<>>)]]

\* the value _proxy_search returns when no entry has the name
None == [name |-> "None", host |-> <<>>, port |-> StrVal(<<>>), identity_file |-> <<>>]

\* SearchFrom returning the loop variable (the last entry) after the loop
RECURSIVE SearchFrom_leak(_, _, _)
SearchFrom_leak(proxies, i, proxy_name) ==
    IF i > Len(proxies) THEN (IF Len(proxies) > 0 THEN proxies[Len(proxies)] ELSE None)
    ELSE IF proxies[i].name = proxy_name THEN proxies[i]
    ELSE SearchFrom_leak(proxies, i + 1, proxy_name)

RECURSIVE SearchFrom(_, _, _)
SearchFrom(proxies, i, proxy_name) ==
    IF i > Len(proxies) THEN None
    ELSE IF proxies[i].name = proxy_name THEN proxies[i]
    ELSE SearchFrom(proxies, i + 1, proxy_name)

_proxy_search(proxy_name) == SearchFrom(parse_proxy_config, 1, proxy_name)

\* the exception open()/yaml.safe_load raise when the file cannot be loaded
LoadFault ==
    IF config_state = "missing" THEN "FileNotFoundError"
    ELSE IF config_state = "invalid" THEN "YAMLError"
    ELSE "none"

(* ------------------------ command patterns ----------------------------- *)

\* the argument vector proxy_connect hands to subprocess.run
connect_cmd(proxy) ==
    << <<"s", "s", "h">>,
       <<"-", "D">>, PyStr(proxy.port),
       <<"-", "i">>, expanduser(proxy.identity_file),
       <<"-", "q">>,
       <<"-", "C">>,
       <<"-", "f">>,
       <<"-", "N">>,
       proxy.host >>

\* the command line of the process ssh leaves behind (/proc/<pid>/cmdline
\* as pgrep -f and pkill -f read it: the arguments joined by spaces)
CmdLine(proxy) == Join(connect_cmd(proxy))

\* status_pattern without the expansion of '~'
status_pattern_noexpand(proxy) ==
    <<"s", "s", "h", " ", "-", "D", " ">> \o PyStr(proxy.port)
      \o <<" ", "-", "i", " ">> \o proxy.identity_file
      \o <<" ", "-", "q", " ", "-", "C", " ", "-", "f", " ", "-", "N", " ">>
      \o proxy.host

\* f"ssh -D {proxy_port} -i {proxy_id} -q -C -f -N {proxy_host}"
status_pattern(proxy) ==
    <<"s", "s", "h", " ", "-", "D", " ">> \o PyStr(proxy.port)
      \o <<" ", "-", "i", " ">> \o expanduser(proxy.identity_file)
      \o <<" ", "-", "q", " ", "-", "C", " ", "-", "f", " ", "-", "N", " ">>
      \o proxy.host

\* f"ssh -D {proxy_port} -N {proxy_host} -q -C -f -i {proxy_id}"
ssh_cmd_pattern(proxy) ==
    <<"s", "s", "h", " ", "-", "D", " ">> \o PyStr(proxy.port)
      \o <<" ", "-", "N", " ">> \o proxy.host
      \o <<" ", "-", "q", " ", "-", "C", " ", "-", "f", " ", "-", "i", " ">>
      \o expanduser(proxy.identity_file)

\* the test of line 165 without identity_file
IncompleteConfig_noid(proxy) ==
    ~StrTruthy(proxy.host) \/ ~PortTruthy(proxy.port)

\* the test of line 165: some field is falsy
IncompleteConfig(proxy) ==
    ~StrTruthy(proxy.host) \/ ~PortTruthy(proxy.port) \/ ~StrTruthy(proxy.identity_file)

(* ------------------------ process table -------------------------------- *)

\* processes whose command line contains the pattern
Matching(table, pattern) == {q \in table : Contains(q.cmd, pattern)}

\* exit status 0 of pgrep -af pattern
pgrep(table, pattern) == Matching(table, pattern) # {}

\* the command line of an ssh tunnel somebody started by hand, with the
\* arguments in another order than proxy_connect's
ManualCmdLine(host, port, identity) ==
    <<"s", "s", "h", " ", "-", "D", " ">> \o port
      \o <<" ", "-", "N", " ">> \o host
      \o <<" ", "-", "q", " ", "-", "C", " ", "-", "f", " ", "-", "i", " ">>
      \o identity

\* the hand-started tunnels the environment may add to the process table
ForeignCmds ==
    { ManualCmdLine(<<"h">>, <<"7">>, <<"/", "r", "/", "k">>),
      ManualCmdLine(<<"h", "2">>, <<"7">>, <<"/", "r", "/", "k">>),
      ManualCmdLine(<<"h">>, <<"7">>, <<"/", "r", "/", "k", "2">>) }

(* ------------------------ output and calls ----------------------------- *)

Msg(m) == [msg |-> m, name |-> "", host |-> <<>>, port |-> <<>>]

ProxyMsg(m, proxy) ==
    [msg |-> m, name |-> proxy.name, host |-> proxy.host, port |-> PyStr(proxy.port)]

NotFoundMsg(proxy_name) ==
    [msg |-> "Error: Proxy not found", name |-> proxy_name, host |-> <<>>, port |-> <<>>]

Call(tool, arg) == [tool |-> tool, arg |-> arg]

\* the shell pipeline of the verbose status (its text is not interpreted)
verbose_cmd == <<"ps aux | head -n 1 ; ps aux | grep -P ... ; ss -tlnp | grep ssh">>

\* what one invocation did: the command line, the process table it found,
\* the external tools it ran in order, what it printed in order, the
\* exception that ended it (or "none"), the values that
\* _disconnect_single_proxy returned and the list 'connected' of proxy_status
Result(cmd, name, verbose, calls, out, fault, rets) ==
    [cmd |-> cmd, name |-> name, verbose |-> verbose, before |-> procs,
     calls |-> calls, out |-> out, fault |-> fault, rets |-> rets,
     connected |-> <<>>]

NoRun ==
    [cmd |-> "none", name |-> "", verbose |-> FALSE, before |-> {},
     calls |-> <<>>, out |-> <<>>, fault |-> "none", rets |-> <<>>,
     connected |-> <<>>]

(* ------------------------ initial states ------------------------------- *)

\* contents of a loadable file: up to MaxProxies entries with distinct keys
Configs ==
    UNION { { c \in [1..n -> [name : Names, data : ProxyData]] :
                \A i, j \in 1..n : i # j => c[i].name # c[j].name } :
            n \in 0..MaxProxies }

\* the same with the keys in the order of NameSeq and the entry bodies that
\* matter to the tunnels
TunnelConfigs ==
    UNION { { [i \in 1..n |-> [name |-> NameSeq[i], data |-> d[i]]] :
                d \in [1..n -> TunnelData] } :
            n \in 0..MaxProxies }

InitLoad ==
    /\ config_state \in {"ok", "missing", "invalid"}
    /\ proxy_config \in (IF config_state = "ok" THEN Configs ELSE {<<>>})
    /\ procs = {}
    /\ run = NoRun

Init ==
    /\ config_state \in {"ok", "missing", "invalid"}
    /\ proxy_config \in (IF config_state = "ok" THEN TunnelConfigs ELSE {<<>>})
    /\ procs = {}
    /\ run = NoRun

(* ------------------------ list and info -------------------------------- *)

proxy_list ==
    /\ run' = IF LoadFault # "none"
              THEN Result("list", "", FALSE, <<>>,
                          <<Msg("Listing configured Proxies:")>>, LoadFault, <<>>)
              ELSE Result("list", "", FALSE, <<>>,
                          <<Msg("Listing configured Proxies:")>>
                            \o [i \in 1..Len(parse_proxy_config) |->
                                  ProxyMsg("-", parse_proxy_config[i])],
                          "none", <<>>)
    /\ UNCHANGED <<config_state, proxy_config, procs>>

proxy_info(proxy_name) ==
    /\ run' = IF LoadFault # "none"
              THEN Result("info", proxy_name, FALSE, <<>>, <<>>, LoadFault, <<>>)
              ELSE IF _proxy_search(proxy_name) = None
              THEN Result("info", proxy_name, FALSE, <<>>,
                          <<NotFoundMsg(proxy_name)>>, "none", <<>>)
              ELSE Result("info", proxy_name, FALSE, <<>>,
                          <<ProxyMsg("Proxy:", _proxy_search(proxy_name)),
                            [msg |-> "  Identity File:", name |-> proxy_name,
                             host |-> _proxy_search(proxy_name).identity_file,
                             port |-> <<>>]>>,
                          "none", <<>>)
    /\ UNCHANGED <<config_state, proxy_config, procs>>

(* ------------------------ status --------------------------------------- *)

\* the pgrep calls of the loop of lines 106-121, in order
StatusCalls(proxies) ==
    [i \in 1..Len(proxies) |-> Call("pgrep", status_pattern(proxies[i]))]

\* the per-proxy test of lines 113-120
is_running(table, proxy) == pgrep(table, status_pattern(proxy))

\* the list 'connected' after the loop: the names of the proxies found running
RECURSIVE Connected(_, _, _)
Connected(table, proxies, i) ==
    IF i > Len(proxies) THEN <<>>
    ELSE (IF is_running(table, proxies[i]) THEN <<proxies[i].name>> ELSE <<>>)
           \o Connected(table, proxies, i + 1)

\* StatusReport with the verbose test ahead of the test of 'connected'
StatusReport_verbosefirst(verbose, connected, calls) ==
    IF verbose
    THEN Result("status", "", verbose, calls \o <<Call("sh", verbose_cmd)>>,
                <<Msg("Running verbose status command:")>>, "none", <<>>)
    ELSE IF connected # <<>>
    THEN Result("status", "", verbose, calls,
                <<Msg("Currently connected proxies:")>>, "TypeError", <<>>)
    ELSE Result("status", "", verbose, calls,
                <<Msg("No proxies appear to be connected.")>>, "none", <<>>)

\* lines 123-142: what is printed and run once 'connected' is known.  The
\* elements of 'connected' are names (strings), so the subscript
\* proxy['name'] of line 140 raises TypeError on the first element.
StatusReport(verbose, connected, calls) ==
    IF connected # <<>>
    THEN IF verbose
         THEN Result("status", "", verbose, calls \o <<Call("sh", verbose_cmd)>>,
                     <<Msg("Running verbose status command:")>>, "none", <<>>)
         ELSE Result("status", "", verbose, calls,
                     <<Msg("Currently connected proxies:")>>, "TypeError", <<>>)
    ELSE Result("status", "", verbose, calls,
                <<Msg("No proxies appear to be connected.")>>, "none", <<>>)

proxy_status(verbose) ==
    /\ run' = IF LoadFault # "none"
              THEN Result("status", "", verbose, <<>>, <<>>, LoadFault, <<>>)
              ELSE [StatusReport(verbose, Connected(procs, parse_proxy_config, 1),
                                 StatusCalls(parse_proxy_config))
                      EXCEPT !.connected = Connected(procs, parse_proxy_config, 1)]
    /\ UNCHANGED <<config_state, proxy_config, procs>>

(* ------------------------ connect -------------------------------------- *)

\* the process ssh -f leaves in the background
Tunnel(proxy) == [cmd |-> CmdLine(proxy), by |-> proxy.name]

\* the last two cases are the two outcomes of ssh: it exits 0 after going to
\* the background, or it exits non-zero, subprocess.run raises
\* CalledProcessError and line 192 reports it
proxy_connect(proxy_name) ==
    LET found_proxy == _proxy_search(proxy_name) IN
    \/ /\ LoadFault # "none"
       /\ run' = Result("connect", proxy_name, FALSE, <<>>, <<>>, LoadFault, <<>>)
       /\ UNCHANGED <<config_state, proxy_config, procs>>
    \/ /\ LoadFault = "none"
       /\ found_proxy = None
       /\ run' = Result("connect", proxy_name, FALSE, <<>>,
                        <<NotFoundMsg(proxy_name)>>, "none", <<>>)
       /\ UNCHANGED <<config_state, proxy_config, procs>>
    \/ /\ LoadFault = "none"
       /\ found_proxy # None
       /\ IncompleteConfig(found_proxy)
       /\ run' = Result("connect", proxy_name, FALSE, <<>>,
                        <<ProxyMsg("Error: Incomplete config", found_proxy)>>,
                        "none", <<>>)
       /\ UNCHANGED <<config_state, proxy_config, procs>>
    \/ /\ LoadFault = "none"
       /\ found_proxy # None
       /\ ~IncompleteConfig(found_proxy)
       /\ Cardinality(procs \cup {Tunnel(found_proxy)}) <= MaxProcs
       /\ procs' = procs \cup {Tunnel(found_proxy)}
       /\ run' = Result("connect", proxy_name, FALSE,
                        <<Call("ssh", CmdLine(found_proxy))>>,
                        <<ProxyMsg("Establishing SOCKS proxy with:", found_proxy),
                          ProxyMsg("Connection established", found_proxy)>>,
                        "none", <<>>)
       /\ UNCHANGED <<config_state, proxy_config>>
    \/ /\ LoadFault = "none"
       /\ found_proxy # None
       /\ ~IncompleteConfig(found_proxy)
       /\ run' = Result("connect", proxy_name, FALSE,
                        <<Call("ssh", CmdLine(found_proxy))>>,
                        <<ProxyMsg("Establishing SOCKS proxy with:", found_proxy),
                          ProxyMsg("Error: Failed to connect", found_proxy)>>,
                        "none", <<>>)
       /\ UNCHANGED <<config_state, proxy_config, procs>>

(* ------------------------ disconnect ----------------------------------- *)

\* _disconnect_single_proxy on a process table: pkill -f exits 0 and the
\* matching processes are gone, or it exits 1 (nothing matched),
\* subprocess.run raises CalledProcessError and the helper returns False
_disconnect_single_proxy(table, proxy) ==
    LET hit == Matching(table, ssh_cmd_pattern(proxy)) IN
    [table |-> table \ hit,
     call |-> Call("pkill", ssh_cmd_pattern(proxy)),
     out |-> IF hit # {} THEN <<ProxyMsg("Disconnected proxy:", proxy)>> ELSE <<>>,
     ret |-> hit # {}]

\* the loop of lines 213-215 leaving at the first attempt that finds nothing
RECURSIVE DisconnectLoop_break(_, _, _)
DisconnectLoop_break(proxies, i, st) ==
    IF i > Len(proxies) THEN st
    ELSE LET r == _disconnect_single_proxy(st.table, proxies[i])
             nxt == [table |-> r.table,
                     calls |-> Append(st.calls, r.call),
                     out |-> st.out \o r.out,
                     rets |-> Append(st.rets, r.ret)]
         IN IF r.ret THEN DisconnectLoop_break(proxies, i + 1, nxt) ELSE nxt

\* the loop of lines 213-215 from entry i on; st carries the process table,
\* the calls made, the lines printed and the values returned so far
RECURSIVE DisconnectLoop(_, _, _)
DisconnectLoop(proxies, i, st) ==
    IF i > Len(proxies) THEN st
    ELSE LET r == _disconnect_single_proxy(st.table, proxies[i]) IN
         DisconnectLoop(proxies, i + 1,
                        [table |-> r.table,
                         calls |-> Append(st.calls, r.call),
                         out |-> st.out \o r.out,
                         rets |-> Append(st.rets, r.ret)])

\* any_disconnected after the loop
any_disconnected(rets) == \E i \in 1..Len(rets) : rets[i]

proxy_disconnect(proxy_name) ==
    LET found_proxy == _proxy_search(proxy_name)
        all == DisconnectLoop(parse_proxy_config, 1,
                   [table |-> procs, calls |-> <<>>,
                    out |-> <<Msg("Disconnecting from all configured proxies.")>>,
                    rets |-> <<>>])
        one == _disconnect_single_proxy(procs, found_proxy)
    IN
    \/ /\ LoadFault # "none"
       /\ run' = Result("disconnect", proxy_name, FALSE, <<>>, <<>>, LoadFault, <<>>)
       /\ UNCHANGED <<config_state, proxy_config, procs>>
    \/ /\ LoadFault = "none"
       /\ proxy_name = "all"
       /\ procs' = all.table
       /\ run' = Result("disconnect", proxy_name, FALSE, all.calls,
                        IF any_disconnected(all.rets) THEN all.out
                        ELSE Append(all.out,
                                    Msg("No active proxies were found to disconnect.")),
                        "none", all.rets)
       /\ UNCHANGED <<config_state, proxy_config>>
    \/ /\ LoadFault = "none"
       /\ proxy_name # "all"
       /\ found_proxy = None
       /\ run' = Result("disconnect", proxy_name, FALSE, <<>>,
                        <<NotFoundMsg(proxy_name)>>, "none", <<>>)
       /\ UNCHANGED <<config_state, proxy_config, procs>>
    \/ /\ LoadFault = "none"
       /\ proxy_name # "all"
       /\ found_proxy # None
       /\ procs' = one.table
       /\ run' = Result("disconnect", proxy_name, FALSE, <<one.call>>, one.out,
                        "none", <<one.ret>>)
       /\ UNCHANGED <<config_state, proxy_config>>

(* ------------------------ environment ---------------------------------- *)

\* somebody starts an ssh tunnel by hand
EnvSpawn(cmdline) ==
    /\ Cardinality(procs \cup {[cmd |-> cmdline, by |-> "env"]}) <= MaxProcs
    /\ procs' = procs \cup {[cmd |-> cmdline, by |-> "env"]}
    /\ run' = NoRun
    /\ UNCHANGED <<config_state, proxy_config>>

\* a tunnel dies (connection lost, killed by hand)
EnvExit(q) ==
    /\ q \in procs
    /\ procs' = procs \ {q}
    /\ run' = NoRun
    /\ UNCHANGED <<config_state, proxy_config>>

(* ------------------------ specification -------------------------------- *)

Next ==
    \/ \E v \in BOOLEAN : proxy_status(v)
    \/ \E n \in ArgNames : proxy_connect(n)
    \/ \E n \in ArgNames : proxy_disconnect(n)
    \/ \E c \in ForeignCmds : EnvSpawn(c)
    \/ \E q \in procs : EnvExit(q)

Spec == Init /\ [][Next]_vars

\* loading and lookup alone, on every configuration
NextLoad ==
    \/ proxy_list
    \/ \E n \in ArgNames : proxy_info(n)

LoadSpec == InitLoad /\ [][NextLoad]_vars

(* ------------------------ properties: helpers -------------------------- *)

\* the configuration was loaded by the last command
Loaded == config_state = "ok"

\* the keys of the configuration file
Keys == {proxy_config[i].name : i \in 1..Len(proxy_config)}

\* the position of a key in the file
IndexOf(n) == CHOOSE i \in 1..Len(proxy_config) : proxy_config[i].name = n

\* host, port and identity_file are all configured in entry i
AllConfigured(i) == DOMAIN proxy_config[i].data = {"host", "port", "identity_file"}

\* the processes of a table that connect launched for the proxy
LaunchedFor(table, proxy) ==
    {q \in table : q.by = proxy.name /\ q.cmd = CmdLine(proxy)}

\* the elements of a sequence
Range(seq) == {seq[i] : i \in 1..Len(seq)}

\* the record the specification expects for entry i
ExpectedRecord(i) ==
    LET d == proxy_config[i].data IN
    [name |-> proxy_config[i].name,
     host |-> IF "host" \in DOMAIN d THEN d.host ELSE <<"-", "-">>,
     port |-> IF "port" \in DOMAIN d THEN d.port ELSE StrVal(<<"-", "-">>),
     identity_file |-> IF "identity_file" \in DOMAIN d THEN d.identity_file ELSE <<>>]

(* ------------------------ C1 ------------------------------------------- *)

\* C1: for a proxy with host, port and identity_file configured, if a
\* process that connect launched for it is in the process table, then
\* disconnect of that proxy runs pkill with a pattern that occurs in the
\* process's command line, returns True, and leaves no process that connect
\* launched for the proxy.
C1_DisconnectKillsTunnel ==
    (/\ run.cmd = "disconnect"
     /\ Loaded
     /\ run.name \in Keys
     /\ AllConfigured(IndexOf(run.name))
     /\ LaunchedFor(run.before, _proxy_search(run.name)) # {})
    => /\ Len(run.calls) = 1
       /\ run.calls[1].tool = "pkill"
       /\ \A q \in LaunchedFor(run.before, _proxy_search(run.name)) :
             Contains(q.cmd, run.calls[1].arg)
       /\ run.rets = <<TRUE>>
       /\ LaunchedFor(procs, _proxy_search(run.name)) = {}

(* ------------------------ C2 ------------------------------------------- *)

\* C2: for a proxy with host, port and identity_file configured, the pattern
\* of status equals the command line of the process connect launches; so
\* status puts the proxy in 'connected' whenever a process that connect
\* launched for it is in the table, and leaves any proxy out of 'connected'
\* when no command line in the table contains its pattern.
C2_StatusDetectsTunnel ==
    (run.cmd = "status" /\ Loaded)
    => \A i \in 1..Len(proxy_config) :
          LET proxy == parse_proxy_config[i] IN
          /\ AllConfigured(i) => run.calls[i].arg = CmdLine(proxy)
          /\ (AllConfigured(i) /\ LaunchedFor(run.before, proxy) # {})
                => proxy.name \in Range(run.connected)
          /\ (\A q \in run.before : ~Contains(q.cmd, run.calls[i].arg))
                => proxy.name \notin Range(run.connected)

\* a status that found the tunnel of a proxy written with '~' and did not
\* find another proxy
C2_Witness ==
    /\ run.cmd = "status"
    /\ Loaded
    /\ \E i, j \in 1..Len(proxy_config) :
          /\ AllConfigured(i)
          /\ proxy_config[i].data.identity_file[1] = "~"
          /\ LaunchedFor(run.before, parse_proxy_config[i]) # {}
          /\ proxy_config[i].name \in Range(run.connected)
          /\ proxy_config[j].name \notin Range(run.connected)

(* ------------------------ C3 ------------------------------------------- *)

\* C3: connect of a configured proxy whose identity_file is absent prints
\* the incomplete-config error, runs no external tool and leaves the
\* process table as it was.
C3_NoIdentityNoSsh ==
    (/\ run.cmd = "connect"
     /\ Loaded
     /\ run.name \in Keys
     /\ "identity_file" \notin DOMAIN proxy_config[IndexOf(run.name)].data)
    => /\ Len(run.out) = 1
       /\ run.out[1].msg = "Error: Incomplete config"
       /\ run.out[1].name = run.name
       /\ run.calls = <<>>
       /\ run.fault = "none"
       /\ procs = run.before

\* a connect of a proxy without identity_file, with a process in the table
C3_Witness ==
    /\ run.cmd = "connect"
    /\ Loaded
    /\ run.name \in Keys
    /\ "identity_file" \notin DOMAIN proxy_config[IndexOf(run.name)].data
    /\ run.out[1].msg = "Error: Incomplete config"
    /\ procs # {}

(* ------------------------ C4 ------------------------------------------- *)

\* C4: connect of a configured proxy whose host or port is absent (the
\* loader's "--") prints the incomplete-config error and does not run ssh.
C4_SentinelNoSsh ==
    (/\ run.cmd = "connect"
     /\ Loaded
     /\ run.name \in Keys
     /\ \/ _proxy_search(run.name).host = <<"-", "-">>
        \/ _proxy_search(run.name).port = StrVal(<<"-", "-">>))
    => /\ Len(run.out) = 1
       /\ run.out[1].msg = "Error: Incomplete config"
       /\ \A k \in 1..Len(run.calls) : run.calls[k].tool # "ssh"

(* ------------------------ C5 ------------------------------------------- *)

\* what the non-verbose status is to print for a list of running proxies
ExpectedStatusOut(connected) ==
    IF connected = <<>> THEN <<Msg("No proxies appear to be connected.")>>
    ELSE <<Msg("Currently connected proxies:")>>
           \o [k \in 1..Len(connected) |->
                 ProxyMsg("-", parse_proxy_config[IndexOf(connected[k])])]

\* C5: the non-verbose status tests every configured proxy, prints the
\* proxies it classified as running (name, host and port, in the order of
\* the file) or the 'no proxies connected' message, and ends without an
\* exception.
C5_StatusPrintsRunning ==
    (run.cmd = "status" /\ ~run.verbose /\ Loaded)
    => /\ Len(run.calls) = Len(proxy_config)
       /\ run.out = ExpectedStatusOut(run.connected)
       /\ run.fault = "none"

(* ------------------------ C6 ------------------------------------------- *)

\* C6: when the configuration file is missing or is not valid, a command
\* that loads it prints an error message and ends without an exception and
\* without running ssh, pgrep or pkill.
C6_LoadErrorReported ==
    (run.cmd \in {"list", "info", "status", "connect", "disconnect"} /\ ~Loaded)
    => /\ run.fault = "none"
       /\ \E k \in 1..Len(run.out) : run.out[k].msg = "Error: cannot load the configuration"
       /\ run.calls = <<>>

(* ------------------------ C7 ------------------------------------------- *)

\* the kill pattern of entry i matches a process of the table
Killable(table, i) ==
    \E q \in table : Contains(q.cmd, ssh_cmd_pattern(parse_proxy_config[i]))

\* C7: disconnect "all" runs pkill once per configured proxy, in the order
\* of the file, also after attempts that found nothing; it prints the 'no
\* active proxies' message exactly when no attempt succeeded; with no
\* process that a kill pattern matches, all N attempts fail and the message
\* is printed.
C7_DisconnectAll ==
    (run.cmd = "disconnect" /\ run.name = "all" /\ Loaded)
    => /\ Len(run.calls) = Len(proxy_config)
       /\ Len(run.rets) = Len(proxy_config)
       /\ \A i \in 1..Len(proxy_config) :
             /\ run.calls[i] = Call("pkill", ssh_cmd_pattern(parse_proxy_config[i]))
             /\ run.rets[i] => Killable(run.before, i)
       /\ (\E k \in 1..Len(run.out) :
              run.out[k].msg = "No active proxies were found to disconnect.")
            <=> (\A i \in 1..Len(run.rets) : ~run.rets[i])
       /\ (\A i \in 1..Len(proxy_config) : ~Killable(run.before, i))
            => /\ \A i \in 1..Len(run.rets) : ~run.rets[i]
               /\ run.out[Len(run.out)].msg = "No active proxies were found to disconnect."
               /\ procs = run.before

\* a disconnect "all" whose first attempt found nothing and whose second
\* attempt killed a process
C7_Witness ==
    /\ run.cmd = "disconnect"
    /\ run.name = "all"
    /\ Len(run.rets) >= 2
    /\ ~run.rets[1]
    /\ run.rets[2]
    /\ procs # run.before

(* ------------------------ C8 ------------------------------------------- *)

\* C8: loading a valid file of N entries with distinct keys gives N records
\* in the order of the file; record i has the i-th key as its name, host and
\* port as configured or "--" when missing, and identity_file as configured
\* or "" when missing.  list prints the name, host and port of each record
\* in that order.
C8_LoadRecords ==
    Loaded
    => /\ Len(parse_proxy_config) = Len(proxy_config)
       /\ \A i \in 1..Len(proxy_config) : parse_proxy_config[i] = ExpectedRecord(i)
       /\ run.cmd = "list"
            => /\ Len(run.out) = Len(proxy_config) + 1
               /\ \A i \in 1..Len(proxy_config) :
                     run.out[i + 1] = ProxyMsg("-", ExpectedRecord(i))

\* a list of two entries of which the second has neither host nor
\* identity_file
C8_Witness ==
    /\ run.cmd = "list"
    /\ Loaded
    /\ Len(proxy_config) = 2
    /\ DOMAIN proxy_config[2].data = {"port"}
    /\ run.out[3].host = <<"-", "-">>
    /\ parse_proxy_config[2].identity_file = <<>>
    /\ DOMAIN proxy_config[1].data = {"host", "port", "identity_file"}

(* ------------------------ C9 ------------------------------------------- *)

\* C9: the lookup of a name returns the loaded record of that name, with its
\* host, port and identity_file as loaded, when the name is a key of the
\* file, and None when it is not; info prints that record or the not-found
\* message.
C9_Lookup ==
    Loaded
    => /\ \A n \in ArgNames :
             IF n \in Keys
             THEN /\ _proxy_search(n).name = n
                  /\ _proxy_search(n) = ExpectedRecord(IndexOf(n))
             ELSE _proxy_search(n) = None
       /\ run.cmd = "info"
            => IF run.name \in Keys
               THEN /\ run.out[1] = ProxyMsg("Proxy:", ExpectedRecord(IndexOf(run.name)))
                    /\ run.out[2].host = ExpectedRecord(IndexOf(run.name)).identity_file
               ELSE run.out = <<NotFoundMsg(run.name)>>

\* an info of the second of two entries
C9_Witness ==
    /\ run.cmd = "info"
    /\ Loaded
    /\ Len(proxy_config) = 2
    /\ run.name = proxy_config[2].name
    /\ run.out[1].name = run.name
    /\ "host" \in DOMAIN proxy_config[2].data
    /\ run.out[1].host = proxy_config[2].data.host

(* ------------------------ C10 ------------------------------------------ *)

\* C10 as stated: the verbose status runs the diagnostic pipeline and
\* nothing else: no pgrep, and the pipeline whatever the process table holds.
C10_VerboseBypassesCheck ==
    (run.cmd = "status" /\ run.verbose /\ Loaded)
    => run.calls = <<Call("sh", verbose_cmd)>>

\* C10 as amended: the verbose status still runs pgrep once per configured
\* proxy, in the order of the file; it runs the diagnostic pipeline (after
\* them, in place of the list of proxies) exactly when some proxy was
\* classified as running, and otherwise prints the 'no proxies connected'
\* message and runs no pipeline.
C10_VerboseAfterCheck ==
    (run.cmd = "status" /\ run.verbose /\ Loaded)
    => /\ \A i \in 1..Len(proxy_config) :
             run.calls[i] = Call("pgrep", status_pattern(parse_proxy_config[i]))
       /\ run.fault = "none"
       /\ IF run.connected # <<>>
          THEN /\ run.calls = StatusCalls(parse_proxy_config) \o <<Call("sh", verbose_cmd)>>
               /\ run.out = <<Msg("Running verbose status command:")>>
          ELSE /\ run.calls = StatusCalls(parse_proxy_config)
               /\ run.out = <<Msg("No proxies appear to be connected.")>>

\* a verbose status that ran the pipeline after two pgrep calls
C10_Witness ==
    /\ run.cmd = "status"
    /\ run.verbose
    /\ Len(run.calls) = 3
    /\ run.calls[3].tool = "sh"
    /\ run.calls[1].tool = "pgrep"
    /\ Len(run.connected) = 1

====
